---------------------------- MODULE Spec2Model ----------------------------
(***************************************************************************)
(* Model of the BST-based dynamic histogram (hist-bst.c) and of the        *)
(* row-parallel sliding-window median filter built on it                   *)
(* (omp-median-filter-2D-sparse.c).                                        *)
(*                                                                         *)
(* The histogram is modelled as a heap of HistNode records addressed by    *)
(* node ids (pointers), with NULL == 0.  Every C function is an operator   *)
(* that maps a histogram value to the histogram value after the call.      *)
(***************************************************************************)
EXTENDS Integers, Sequences, FiniteSets, TLC

(***************************************************************************)
(* Bounds of the model.                                                    *)
(***************************************************************************)
MaxKey == 4          \* histogram keys are 0..MaxKey
MaxTotal == 5        \* a client histogram holds at most MaxTotal occurrences;
                     \* the multiplicity c of one call is 0..MaxTotal
MaxPixels == 4       \* images have width * height <= MaxPixels
MaxVal == 2          \* samples are 0..MaxVal (MaxVal <= MaxKey)
MaxRadius == 1       \* radius is 0..MaxRadius
MaxThreads == 2      \* the OpenMP team has 1..MaxThreads threads
MaxBoth == 4         \* two histograms hold at most MaxBoth occurrences together

Keys == 0..MaxKey
NULL == 0
MaxNodes == MaxKey + 1
NodeIds == 1..MaxNodes

VARIABLES
    hist,      \* the histogram under test: [root, node]
    net,       \* ghost: per key, multiplicities inserted minus deleted
    lastOp,    \* ghost: the last operation applied to hist and its code path
    saved,     \* ghost: what a client observed before the last round trip
               \* (insert then delete, or hist_add then hist_sub)
    build,     \* how hist-bst.c was compiled: "NDEBUG" or "assert"
    hist2,     \* a second histogram, the H2 of hist_add and hist_sub
    dims,      \* [width, height, radius] passed to the filter
    in,        \* input buffer, index -> sample
    out,       \* output buffer, index -> sample (-1: not yet written)
    nthreads,  \* size of the OpenMP team
    wk,        \* thread -> [pc, hist, i, j]
    todo,      \* iterations of the omp for loop not yet handed to a thread
    claimed,   \* ghost: row -> sequence of threads that were handed the row
    writers,   \* ghost: index of out -> sequence of threads that wrote it
    access,    \* ghost: struct Hist block -> {[thread, op]} that used it
    bpp,       \* bits per sample of data_t in the CUDA build (BPP)
    d_in,      \* device buffer: the image with its ghost area
    d_out,     \* device buffer: the input copied in, then the kernel's output
    gpu_pc,    \* position in cuda_median_2D_hist_generic
    touched    \* ghost: the accesses [buf, idx] made to in and out so far

hvars == <<hist, net, lastOp, saved, build, hist2>>
gvars == <<bpp, d_in, d_out, gpu_pc>>
fvars == <<dims, in, out, nthreads, wk, todo, claimed, writers, access, gvars,
           touched>>
vars == <<hist, net, lastOp, saved, build, hist2, dims, in, out, nthreads,
          wk, todo, claimed, writers, access, bpp, d_in, d_out, gpu_pc,
          touched>>

(***************************************************************************)
(* struct HistNode, struct Hist                                            *)
(***************************************************************************)
FreeNode ==
    [alloc |-> FALSE, key |-> 0, count |-> 0, counts |-> 0,
     parent |-> NULL, left |-> NULL, right |-> NULL]

hist_create == [root |-> NULL, node |-> [id \in NodeIds |-> FreeNode]]

FreeIds(T) == {id \in NodeIds : ~T.node[id].alloc}

\* malloc returns some free block.  The program uses addresses only for
\* equality tests, so its behaviour does not depend on which free block is
\* returned; the allocator modelled here hands out block k+1 for a node of
\* key k when that block is free, and the lowest free block otherwise.
malloc(T, k) ==
    IF (k + 1) \in FreeIds(T) THEN k + 1
    ELSE CHOOSE id \in FreeIds(T) : \A j \in FreeIds(T) : id <= j

\* variant: the block is never returned to the allocator
free_leak(T, n) == T

\* free(n): the block is returned to the allocator
free(T, n) == [T EXCEPT !.node[n] = FreeNode]

hist_new_node(T, k, count, parent, left, right) ==
    LET n == malloc(T, k)
    IN [T |-> [T EXCEPT !.node[n] =
                    [alloc |-> TRUE, key |-> k, count |-> count, counts |-> -1,
                     parent |-> parent, left |-> left, right |-> right]],
        n |-> n]

\* return changed = TRUE if counts changed
update_counts(T, n) ==
    IF n = NULL THEN [T |-> T, changed |-> FALSE]
    ELSE LET nd == T.node[n]
             old_counts == nd.counts
             new_counts == nd.count
                 + (IF nd.left # NULL THEN T.node[nd.left].counts ELSE 0)
                 + (IF nd.right # NULL THEN T.node[nd.right].counts ELSE 0)
         IN [T |-> [T EXCEPT !.node[n].counts = new_counts],
             changed |-> (old_counts # new_counts)]

\* variant: repair only the starting node, never walk to the parent
update_counts_to_root_stop(T, n) == update_counts(T, n).T

RECURSIVE update_counts_to_root(_, _)
update_counts_to_root(T, n) ==
    LET r == update_counts(T, n)
    IN IF r.changed THEN update_counts_to_root(r.T, r.T.node[n].parent)
       ELSE r.T

RECURSIVE hist_clear_rec(_, _)
hist_clear_rec(T, n) ==
    IF n = NULL THEN T
    ELSE LET T1 == hist_clear_rec(T, T.node[n].left)
             T2 == hist_clear_rec(T1, T.node[n].right)
         IN free(T2, n)

RECURSIVE hist_clear_frees(_, _)
\* the blocks hist_clear_rec passes to free, in the order of the calls
hist_clear_frees(T, n) ==
    IF n = NULL THEN <<>>
    ELSE hist_clear_frees(T, T.node[n].left)
         \o hist_clear_frees(T, T.node[n].right) \o <<n>>

\* variant: H->root keeps pointing to the freed root
hist_clear_dangling(T) == hist_clear_rec(T, T.root)

hist_clear(T) == [hist_clear_rec(T, T.root) EXCEPT !.root = NULL]

RECURSIVE hist_insert_rec_dup(_, _, _, _, _)
\* variant: a key equal to the node's key is sent to the left subtree
hist_insert_rec_dup(T, n, p, k, c) ==
    IF n = NULL THEN
        LET a == hist_new_node(T, k, c, p, NULL, NULL)
        IN [T |-> update_counts(a.T, a.n).T, n |-> a.n]
    ELSE IF k <= T.node[n].key THEN
        LET r == hist_insert_rec_dup(T, T.node[n].left, n, k, c)
            T1 == [r.T EXCEPT !.node[n].left = r.n]
        IN [T |-> update_counts(T1, n).T, n |-> n]
    ELSE IF k > T.node[n].key THEN
        LET r == hist_insert_rec_dup(T, T.node[n].right, n, k, c)
            T1 == [r.T EXCEPT !.node[n].right = r.n]
        IN [T |-> update_counts(T1, n).T, n |-> n]
    ELSE
        LET T1 == [T EXCEPT !.node[n].count = @ + c]
        IN [T |-> update_counts(T1, n).T, n |-> n]

RECURSIVE hist_insert_rec(_, _, _, _, _)
hist_insert_rec(T, n, p, k, c) ==
    IF n = NULL THEN
        LET a == hist_new_node(T, k, c, p, NULL, NULL)
        IN [T |-> update_counts(a.T, a.n).T, n |-> a.n]
    ELSE IF k < T.node[n].key THEN
        LET r == hist_insert_rec(T, T.node[n].left, n, k, c)
            T1 == [r.T EXCEPT !.node[n].left = r.n]
        IN [T |-> update_counts(T1, n).T, n |-> n]
    ELSE IF k > T.node[n].key THEN
        LET r == hist_insert_rec(T, T.node[n].right, n, k, c)
            T1 == [r.T EXCEPT !.node[n].right = r.n]
        IN [T |-> update_counts(T1, n).T, n |-> n]
    ELSE
        LET T1 == [T EXCEPT !.node[n].count = @ + c]
        IN [T |-> update_counts(T1, n).T, n |-> n]

\* variant: the c > 0 test is dropped, so c = 0 creates a node
hist_insert_nocheck(T, k, c) ==
    LET r == hist_insert_rec(T, T.root, NULL, k, c)
    IN [r.T EXCEPT !.root = r.n]

hist_insert(T, k, c) ==
    IF c > 0 THEN
        LET r == hist_insert_rec(T, T.root, NULL, k, c)
        IN [r.T EXCEPT !.root = r.n]
    ELSE T

RECURSIVE hist_lookup_from(_, _, _)
hist_lookup_from(T, n, v) ==
    IF n # NULL /\ T.node[n].key # v THEN
        IF v < T.node[n].key THEN hist_lookup_from(T, T.node[n].left, v)
        ELSE hist_lookup_from(T, T.node[n].right, v)
    ELSE n

hist_lookup(T, v) == hist_lookup_from(T, T.root, v)

RECURSIVE hist_maximum(_, _)
\* variant: walks right instead of left
hist_maximum(T, n) ==
    IF T.node[n].right # NULL THEN hist_maximum(T, T.node[n].right) ELSE n

RECURSIVE hist_minimum(_, _)
hist_minimum(T, n) ==
    IF T.node[n].left # NULL THEN hist_minimum(T, T.node[n].left) ELSE n

\* variant: returns the subtree count instead of the node's own count
hist_get_counts(T, k) ==
    LET n == hist_lookup(T, k)
    IN IF n = NULL THEN 0 ELSE T.node[n].counts

hist_get(T, k) ==
    LET n == hist_lookup(T, k)
    IN IF n = NULL THEN 0 ELSE T.node[n].count

\* variant: v is linked under u's parent but keeps its old parent pointer
hist_transplant_noparent(T, u, v) ==
    LET up == T.node[u].parent
    IN IF up = NULL THEN [T EXCEPT !.root = v]
       ELSE IF u = T.node[up].left THEN [T EXCEPT !.node[up].left = v]
       ELSE [T EXCEPT !.node[up].right = v]

\* variant: the test that tells a left child from a right child is inverted
hist_transplant_swapped(T, u, v) ==
    LET up == T.node[u].parent
        T1 == IF up = NULL THEN [T EXCEPT !.root = v]
              ELSE IF u = T.node[up].right THEN [T EXCEPT !.node[up].left = v]
              ELSE [T EXCEPT !.node[up].right = v]
    IN IF v # NULL THEN [T1 EXCEPT !.node[v].parent = up] ELSE T1

hist_transplant(T, u, v) ==
    LET up == T.node[u].parent
        T1 == IF up = NULL THEN [T EXCEPT !.root = v]
              ELSE IF u = T.node[up].left THEN [T EXCEPT !.node[up].left = v]
              ELSE [T EXCEPT !.node[up].right = v]
    IN IF v # NULL THEN [T1 EXCEPT !.node[v].parent = up] ELSE T1

\* variant: the repair starts at the successor even when the successor was
\* not the direct right child
hist_delete_unlink_near(T, n) ==
    LET nd == T.node[n]
    IN IF nd.left = NULL THEN
           LET update_from == IF nd.parent # NULL THEN nd.parent ELSE nd.right
               T1 == hist_transplant(T, n, nd.right)
           IN [T |-> free(T1, n), update_from |-> update_from]
       ELSE IF nd.right = NULL THEN
           LET update_from == IF nd.parent # NULL THEN nd.parent ELSE nd.left
               T1 == hist_transplant(T, n, nd.left)
           IN [T |-> free(T1, n), update_from |-> update_from]
       ELSE
           LET min_of_right == hist_minimum(T, nd.right)
               far == T.node[min_of_right].parent # n
               update_from == IF far THEN min_of_right
                              ELSE min_of_right
               T1 == IF far THEN
                        LET A == hist_transplant(T, min_of_right,
                                                 T.node[min_of_right].right)
                            B == [A EXCEPT !.node[min_of_right].right =
                                               A.node[n].right]
                        IN [B EXCEPT !.node[B.node[min_of_right].right].parent =
                                         min_of_right]
                     ELSE T
               T2 == hist_transplant(T1, n, min_of_right)
               T3 == [T2 EXCEPT !.node[min_of_right].left = T2.node[n].left]
               T4 == [T3 EXCEPT !.node[T3.node[min_of_right].left].parent =
                                    min_of_right]
           IN [T |-> free(T4, n), update_from |-> update_from]

\* the removal branch of hist_delete (n->count has reached 0) up to the
\* free(n): the heap with n unlinked, and the node the repair starts from
hist_delete_unlink(T, n) ==
    LET nd == T.node[n]
    IN IF nd.left = NULL THEN
           LET update_from == IF nd.parent # NULL THEN nd.parent ELSE nd.right
               T1 == hist_transplant(T, n, nd.right)
           IN [T |-> free(T1, n), update_from |-> update_from]
       ELSE IF nd.right = NULL THEN
           LET update_from == IF nd.parent # NULL THEN nd.parent ELSE nd.left
               T1 == hist_transplant(T, n, nd.left)
           IN [T |-> free(T1, n), update_from |-> update_from]
       ELSE
           LET min_of_right == hist_minimum(T, nd.right)
               far == T.node[min_of_right].parent # n
               update_from == IF far THEN T.node[min_of_right].parent
                              ELSE min_of_right
               T1 == IF far THEN
                        LET A == hist_transplant(T, min_of_right,
                                                 T.node[min_of_right].right)
                            B == [A EXCEPT !.node[min_of_right].right =
                                               A.node[n].right]
                        IN [B EXCEPT !.node[B.node[min_of_right].right].parent =
                                         min_of_right]
                     ELSE T
               T2 == hist_transplant(T1, n, min_of_right)
               T3 == [T2 EXCEPT !.node[min_of_right].left = T2.node[n].left]
               T4 == [T3 EXCEPT !.node[T3.node[min_of_right].left].parent =
                                    min_of_right]
           IN [T |-> free(T4, n), update_from |-> update_from]

\* the removal branch of hist_delete: unlink, free, repair
hist_delete_node(T, n) ==
    LET u == hist_delete_unlink(T, n)
    IN update_counts_to_root(u.T, u.update_from)

\* hist_delete up to its call of update_counts_to_root: the heap right
\* after the mutation and the node passed to the repair (v is present)
hist_delete_mutation(T, v, c) ==
    LET n == hist_lookup(T, v)
        T1 == [T EXCEPT !.node[n].count = @ - c]
    IN IF T1.node[n].count > 0 THEN [T |-> T1, update_from |-> n]
       ELSE hist_delete_unlink(T1, n)

RECURSIVE update_counts_to_root_to(_, _)
\* update_counts_to_root with the node at which its loop ends: the node
\* whose counts did not change, NULL past the root
update_counts_to_root_to(T, n) ==
    LET r == update_counts(T, n)
    IN IF r.changed THEN update_counts_to_root_to(r.T, r.T.node[n].parent)
       ELSE [T |-> r.T, stop |-> n]

hist_delete(T, v, c) ==
    LET n == hist_lookup(T, v)
    IN IF n = NULL THEN T
       ELSE LET T1 == [T EXCEPT !.node[n].count = @ - c]
            IN IF T1.node[n].count > 0 THEN update_counts_to_root(T1, n)
               ELSE hist_delete_node(T1, n)

\* variant: the sense of the result is inverted (non-zero when there is a
\* root)
hist_is_empty_inverted(T) == T.root # NULL

hist_is_empty(T) == (T.root = NULL) \/ (T.node[T.root].counts = 0)

RECURSIVE hist_add_rec_left(_, _, _)
\* variant: the right subtree of a node of H2 is not visited
hist_add_rec_left(T, T2, n) ==
    IF n = NULL THEN T
    ELSE LET A == hist_insert(T, T2.node[n].key, T2.node[n].count)
         IN hist_add_rec_left(A, T2, T2.node[n].left)

RECURSIVE hist_add_rec(_, _, _)
\* T is the histogram H, n a node of the other histogram T2
hist_add_rec(T, T2, n) ==
    IF n = NULL THEN T
    ELSE LET A == hist_insert(T, T2.node[n].key, T2.node[n].count)
             B == hist_add_rec(A, T2, T2.node[n].left)
         IN hist_add_rec(B, T2, T2.node[n].right)

hist_add(T1, T2) == hist_add_rec(T1, T2, T2.root)

RECURSIVE hist_sub_rec_one(_, _, _)
\* variant: one occurrence is deleted for a node of H2, not n->count
hist_sub_rec_one(T, T2, n) ==
    IF n = NULL THEN T
    ELSE LET A == hist_delete(T, T2.node[n].key, 1)
             B == hist_sub_rec_one(A, T2, T2.node[n].left)
         IN hist_sub_rec_one(B, T2, T2.node[n].right)

RECURSIVE hist_sub_rec(_, _, _)
hist_sub_rec(T, T2, n) ==
    IF n = NULL THEN T
    ELSE LET A == hist_delete(T, T2.node[n].key, T2.node[n].count)
             B == hist_sub_rec(A, T2, T2.node[n].left)
         IN hist_sub_rec(B, T2, T2.node[n].right)

hist_sub(T1, T2) == hist_sub_rec(T1, T2, T2.root)

\* variant: the lower of the two middle ranks
median_target_lower(counts) == (counts - 1) \div 2

\* variant: the rank searched for is the number of occurrences
median_target_all(counts) == counts

median_target(counts) == counts \div 2

RECURSIVE hist_median_from(_, _, _)
\* the rank descent; -1 stands for a failed assertion
hist_median_from(T, n, target) ==
    IF n = NULL THEN -1
    ELSE IF T.node[n].counts < target THEN -1
    ELSE LET nd == T.node[n]
             counts_left == IF nd.left # NULL THEN T.node[nd.left].counts ELSE 0
         IN IF counts_left > target THEN hist_median_from(T, nd.left, target)
            ELSE IF target < counts_left + nd.count THEN nd.key
            ELSE hist_median_from(T, nd.right, target - counts_left - nd.count)

RECURSIVE hist_median_walk(_, _, _)
\* the loop of hist_median with the asserts compiled out: the sequence of
\* [n, target] at the head of its iterations, ended by the iteration that
\* returns or by n == NULL
hist_median_walk(T, n, target) ==
    IF n = NULL THEN <<[n |-> NULL, target |-> target]>>
    ELSE LET nd == T.node[n]
             counts_left == IF nd.left # NULL THEN T.node[nd.left].counts ELSE 0
         IN <<[n |-> n, target |-> target]>> \o
            (IF counts_left > target THEN hist_median_walk(T, nd.left, target)
             ELSE IF target < counts_left + nd.count THEN <<>>
             ELSE hist_median_walk(T, nd.right,
                                   target - counts_left - nd.count))

hist_median(T) ==
    IF T.root = NULL THEN -1
    ELSE hist_median_from(T, T.root, median_target(T.node[T.root].counts))

(***************************************************************************)
(* Structure of a histogram value, used to state the properties.           *)
(***************************************************************************)
RECURSIVE Subtree(_, _)
\* ids of the nodes of the subtree rooted at n (following child links)
Subtree(T, n) ==
    IF n = NULL THEN {}
    ELSE {n} \cup Subtree(T, T.node[n].left) \cup Subtree(T, T.node[n].right)

TreeNodes(T) == Subtree(T, T.root)

TreeKeys(T) == {T.node[n].key : n \in TreeNodes(T)}

CountsOf(T, n) == IF n = NULL THEN 0 ELSE T.node[n].counts

GetAll(T) == [k \in Keys |-> hist_get(T, k)]

RECURSIVE SumUpTo(_, _)
\* number of occurrences of keys <= k in the count function g
SumUpTo(g, k) == IF k < 0 THEN 0 ELSE g[k] + SumUpTo(g, k - 1)

Total(g) == SumUpTo(g, MaxKey)

\* value at 0-indexed position r of the sorted expansion of g
RankValue(g, r) == CHOOSE k \in Keys :
    /\ SumUpTo(g, k) > r
    /\ \A k2 \in Keys : k2 < k => SumUpTo(g, k2) <= r

Observables(T) ==
    [get |-> GetAll(T), empty |-> hist_is_empty(T),
     median |-> IF hist_is_empty(T) THEN -1 ELSE hist_median(T)]

(***************************************************************************)
(* The sliding-window row filter.                                          *)
(***************************************************************************)
\* variant: REPLICATE is not defined (wrap-around instead of replication)
IDX_wrap(i, j, height, width) ==
    LET ci == (i + height) % height
        cj == (j + width) % width
    IN ci * width + cj

\* REPLICATE is defined
IDX(i, j, height, width) ==
    LET ci == IF i < 0 THEN 0 ELSE IF i >= height THEN height - 1 ELSE i
        cj == IF j < 0 THEN 0 ELSE IF j >= width THEN width - 1 ELSE j
    IN ci * width + cj

RECURSIVE fill_histogram_from(_, _, _, _, _, _, _, _)
\* the two nested loops, t = (di + radius) * (2*radius+1) + (dj + radius).
\* (T1 = T1 is always true: it only makes TLC compute T1 before it goes on
\* to the next iteration, which keeps its evaluation stack shallow.)
fill_histogram_from(T, buf, i, j, radius, width, height, t) ==
    LET side == 2 * radius + 1
        di == (t \div side) - radius
        dj == (t % side) - radius
    IN IF t >= side * side THEN T
       ELSE LET val == buf[IDX(i + di, j + dj, height, width)]
                T1 == hist_insert(T, val, 1)
            IN IF T1 = T1
               THEN fill_histogram_from(T1, buf, i, j, radius, width, height,
                                        t + 1)
               ELSE T1

\* variant: the first sample of the window is left out
fill_histogram_skip(T, buf, i, j, radius, width, height) ==
    fill_histogram_from(T, buf, i, j, radius, width, height, 1)

fill_histogram(T, buf, i, j, radius, width, height) ==
    fill_histogram_from(T, buf, i, j, radius, width, height, 0)

RECURSIVE shift_histogram_stale(_, _, _, _, _, _, _, _)
\* variant: the sample entering on the right is taken one column too early
shift_histogram_stale(T, buf, i, j, radius, width, height, di) ==
    IF di > radius THEN T
    ELSE LET val_left == buf[IDX(i + di, j - radius, height, width)]
             T1 == hist_delete(T, val_left, 1)
             val_right == buf[IDX(i + di, j + radius, height, width)]
             T2 == hist_insert(T1, val_right, 1)
         IN shift_histogram_stale(T2, buf, i, j, radius, width, height, di + 1)

RECURSIVE shift_histogram_from(_, _, _, _, _, _, _, _)
shift_histogram_from(T, buf, i, j, radius, width, height, di) ==
    IF di > radius THEN T
    ELSE LET val_left == buf[IDX(i + di, j - radius, height, width)]
             T1 == hist_delete(T, val_left, 1)
             val_right == buf[IDX(i + di, j + radius + 1, height, width)]
             T2 == hist_insert(T1, val_right, 1)
         IN shift_histogram_from(T2, buf, i, j, radius, width, height, di + 1)

\* variant: the histogram is not re-initialised at the start of a row
row_start_noclear(T, buf, i, radius, width, height) ==
    fill_histogram(T, buf, i, 0, radius, width, height)

\* lines 106-107: the histogram a thread holds when it enters the column loop
row_start(T, buf, i, radius, width, height) ==
    fill_histogram(hist_clear(T), buf, i, 0, radius, width, height)

shift_histogram(T, buf, i, j, radius, width, height) ==
    shift_histogram_from(T, buf, i, j, radius, width, height, 0 - radius)

RECURSIVE shift_deletes_found(_, _, _, _, _, _, _, _)
\* lines 73-77 seen from hist_delete: at each di from di on, does the call
\* hist_delete(hist, val_left, 1) find val_left (lines 253, 256) and leave
\* its count >= 0 (lines 259-260)?
shift_deletes_found(T, buf, i, j, radius, width, height, di) ==
    IF di > radius THEN TRUE
    ELSE LET val_left == buf[IDX(i + di, j - radius, height, width)]
             n == hist_lookup(T, val_left)
             T1 == hist_delete(T, val_left, 1)
             val_right == buf[IDX(i + di, j + radius + 1, height, width)]
             T2 == hist_insert(T1, val_right, 1)
         IN /\ n # NULL
            /\ T.node[n].count - 1 >= 0
            /\ shift_deletes_found(T2, buf, i, j, radius, width, height,
                                   di + 1)

\* variant: the iteration stays available to the other threads
omp_for_keep(rows, i) == rows

\* omp for: an iteration handed to a thread is handed to no other thread
omp_for_take(rows, i) == rows \ {i}

hist_destroy(T) == hist_clear(T)

\* variant: hist_create hands every caller one static struct Hist
malloc_hist_static(live, w) == 1

\* the struct Hist block malloc gives thread w in hist_create; live is the
\* set of blocks in use.  Each thread is served from its own arena: block w
\* when it is free, else the lowest free block.
malloc_hist(live, w) ==
    IF w \notin live THEN w
    ELSE CHOOSE b \in 1..MaxThreads :
             b \notin live /\ \A b2 \in 1..MaxThreads : b2 \notin live => b <= b2

(***************************************************************************)
(* The histogram exercised by an arbitrary client.                         *)
(***************************************************************************)
NoSaved == [get |-> [k \in Keys |-> 0], empty |-> TRUE, median |-> -1]

\* the code path hist_insert(k, c) takes from T
InsertCase(T, k, c) ==
    IF c = 0 THEN "noop"
    ELSE IF hist_lookup(T, k) = NULL THEN "new" ELSE "existing"

\* the code path hist_delete(k, c) takes from T
DeleteCase(T, k, c) ==
    LET n == hist_lookup(T, k)
    IN IF n = NULL THEN "absent"
       ELSE IF T.node[n].count - c > 0 THEN "decrement"
       ELSE IF T.node[n].left = NULL THEN "no_left"
       ELSE IF T.node[n].right = NULL THEN "no_right"
       ELSE IF T.node[hist_minimum(T, T.node[n].right)].parent = n
            THEN "succ_near"
       ELSE "succ_far"

\* hist_insert(k, c) from T needs no new block, or malloc has one to give
MallocOk(T, k, c) == InsertCase(T, k, c) # "new" \/ FreeIds(T) # {}

FilterIdle ==
    /\ dims = [width |-> 0, height |-> 0, radius |-> 0]
    /\ in = <<>>
    /\ out = <<>>
    /\ nthreads = 0
    /\ wk = <<>>
    /\ todo = {}
    /\ claimed = <<>>
    /\ writers = <<>>
    /\ access = <<>>
    /\ bpp = 0
    /\ gpu_pc = "idle"
    /\ touched = {}
    /\ d_in = <<>>
    /\ d_out = <<>>

Init ==
    /\ hist = hist_create
    /\ net = [k \in Keys |-> 0]
    /\ lastOp = [op |-> "create", path |-> "none"]
    /\ saved = NoSaved
    /\ build = "NDEBUG"
    /\ hist2 = hist_create
    /\ FilterIdle

Insert(k, c) ==
    /\ Total(net) + c <= MaxTotal
    /\ MallocOk(hist, k, c)
    /\ hist' = hist_insert(hist, k, c)
    /\ net' = [net EXCEPT ![k] = @ + c]
    /\ lastOp' = [op |-> "insert", path |-> InsertCase(hist, k, c)]
    /\ saved' = NoSaved
    /\ UNCHANGED <<build, hist2, fvars>>

Delete(k, c) ==
    /\ c <= hist_get(hist, k)
    /\ hist' = hist_delete(hist, k, c)
    /\ net' = [net EXCEPT ![k] = @ - c]
    /\ lastOp' = [op |-> "delete", path |-> DeleteCase(hist, k, c)]
    /\ saved' = NoSaved
    /\ UNCHANGED <<build, hist2, fvars>>

\* a client that calls hist_insert(k, c) and then at once hist_delete(k, c)
InsertDelete(k, c) ==
    /\ Total(net) + c <= MaxTotal
    /\ MallocOk(hist, k, c)
    /\ hist' = hist_delete(hist_insert(hist, k, c), k, c)
    /\ net' = net
    /\ lastOp' = [op |-> "insert_delete", path |-> InsertCase(hist, k, c)]
    /\ saved' = Observables(hist)
    /\ UNCHANGED <<build, hist2, fvars>>

Clear ==
    /\ hist' = hist_clear(hist)
    /\ net' = [k \in Keys |-> 0]
    /\ lastOp' = [op |-> "clear",
                  path |-> IF hist.root = NULL THEN "empty" ELSE "nonempty"]
    /\ saved' = NoSaved
    /\ UNCHANGED <<build, hist2, fvars>>

Next ==
    \/ \E k \in Keys, c \in 0..MaxTotal : Insert(k, c)
    \/ \E k \in Keys, c \in 0..MaxTotal : Delete(k, c)
    \/ \E k \in Keys, c \in 0..MaxTotal : InsertDelete(k, c)
    \/ Clear

Spec == Init /\ [][Next]_vars

\* the same client restricted to the calls that change the tree: an insert
\* of at least one occurrence, a delete of occurrences that are present
TreeNext ==
    \/ \E k \in Keys : \E c \in 1..(MaxTotal - Total(net)) : Insert(k, c)
    \/ \E k \in Keys : \E c \in 1..net[k] : Delete(k, c)
    \/ Clear

TreeSpec == Init /\ [][TreeNext]_vars

(***************************************************************************)
(* A client that may break the preconditions of the interface.  The run is *)
(* followed up to the first call that breaks one.                          *)
(***************************************************************************)
\* the Makefile compiles with -DNDEBUG (assert is empty); "assert" is a
\* build without that flag
Builds == {"NDEBUG", "assert"}

\* assert(cond) ends the program in build b
assert_fails(b, cond) == b = "assert" /\ ~cond

\* hist_delete with its assertions: the memory when the call ends and how
\* it ends
hist_delete_call(b, T, v, c) ==
    LET n == hist_lookup(T, v)
    IN IF assert_fails(b, c >= 0) THEN [T |-> T, outcome |-> "assert(c>=0)"]
       ELSE IF n = NULL THEN [T |-> T, outcome |-> "returned"]
       ELSE LET T1 == [T EXCEPT !.node[n].count = @ - c]
            IN IF assert_fails(b, T1.node[n].count >= 0)
               THEN [T |-> T1, outcome |-> "assert(n->count >= 0)"]
               ELSE [T |-> hist_delete(T, v, c), outcome |-> "returned"]

\* hist_insert with its assertions
hist_insert_call(b, T, k, c) ==
    IF assert_fails(b, c >= 0) THEN [T |-> T, outcome |-> "assert(c>=0)"]
    ELSE [T |-> hist_insert(T, k, c), outcome |-> "returned"]

\* the ways a call of hist_median can end.  With no root and no assertion
\* line 371 reads H->root->counts through a null pointer: the behaviour is
\* undefined, the program is killed or goes on with some value.
hist_median_call(b, T) ==
    IF assert_fails(b, T.root # NULL) THEN {"assert(n != NULL)"}
    ELSE IF T.root = NULL THEN {"SIGSEGV", "returned"}
    ELSE {"returned"}

\* the calls whose arguments or receiver break a precondition
Violations == {"insert_neg", "delete_neg", "delete_over", "median_empty"}

Running == lastOp.op \notin Violations

ErrInit ==
    /\ hist = hist_create
    /\ net = [k \in Keys |-> 0]
    /\ lastOp = [op |-> "create", path |-> "none"]
    /\ saved = NoSaved
    /\ build \in Builds
    /\ hist2 = hist_create
    /\ FilterIdle

\* hist_insert(k, c) with c < 0
InsertNegative(k, c) ==
    /\ Running
    /\ c < 0
    /\ LET r == hist_insert_call(build, hist, k, c)
       IN /\ hist' = r.T
          /\ lastOp' = [op |-> "insert_neg", path |-> r.outcome]
    /\ saved' = NoSaved
    /\ UNCHANGED <<net, build, hist2, fvars>>

\* hist_delete(k, c) with c < 0
DeleteNegative(k, c) ==
    /\ Running
    /\ c < 0
    /\ LET r == hist_delete_call(build, hist, k, c)
       IN /\ hist' = r.T
          /\ lastOp' = [op |-> "delete_neg", path |-> r.outcome]
    /\ saved' = NoSaved
    /\ UNCHANGED <<net, build, hist2, fvars>>

\* hist_delete(k, c) with more occurrences than the histogram holds
DeleteTooMany(k, c) ==
    /\ Running
    /\ c > hist_get(hist, k)
    /\ LET r == hist_delete_call(build, hist, k, c)
       IN /\ hist' = r.T
          /\ lastOp' = [op |-> "delete_over", path |-> r.outcome]
    /\ saved' = NoSaved
    /\ UNCHANGED <<net, build, hist2, fvars>>

\* hist_median; after records the call that came before it
Median ==
    /\ Running
    /\ \E o \in hist_median_call(build, hist) :
           lastOp' = [op |-> IF hist.root = NULL THEN "median_empty"
                             ELSE "median",
                      path |-> o, after |-> lastOp.op]
    /\ saved' = NoSaved
    /\ UNCHANGED <<hist, net, build, hist2, fvars>>

ErrNext ==
    \/ \E k \in Keys, c \in 0..MaxTotal : Running /\ Insert(k, c)
    \/ \E k \in Keys, c \in 0..MaxTotal : Running /\ Delete(k, c)
    \/ Running /\ Clear
    \/ \E k \in Keys, c \in (0 - MaxTotal)..(0 - 1) : InsertNegative(k, c)
    \/ \E k \in Keys, c \in (0 - MaxTotal)..(0 - 1) : DeleteNegative(k, c)
    \/ \E k \in Keys, c \in 1..MaxTotal : DeleteTooMany(k, c)
    \/ Median

ErrSpec == ErrInit /\ [][ErrNext]_vars

(***************************************************************************)
(* A client with two histograms H1 (hist) and H2 (hist2) that fills them   *)
(* and adds H2 to H1 or subtracts it from H1.                              *)
(***************************************************************************)
MergeInit ==
    /\ hist = hist_create
    /\ net = [k \in Keys |-> 0]
    /\ lastOp = [op |-> "create", path |-> "none"]
    /\ saved = NoSaved
    /\ build = "NDEBUG"
    /\ hist2 = hist_create
    /\ FilterIdle

\* occurrences held by the two histograms together
TotalBoth == Total(GetAll(hist)) + Total(GetAll(hist2))

\* hist_insert(H1, k, c)
InsertH1(k, c) ==
    /\ TotalBoth + c <= MaxBoth
    /\ hist' = hist_insert(hist, k, c)
    /\ lastOp' = [op |-> "insert", path |-> "H1"]
    /\ saved' = NoSaved
    /\ UNCHANGED <<net, build, hist2, fvars>>

\* hist_insert(H2, k, c)
InsertH2(k, c) ==
    /\ TotalBoth + c <= MaxBoth
    /\ hist2' = hist_insert(hist2, k, c)
    /\ lastOp' = [op |-> "insert", path |-> "H2"]
    /\ saved' = NoSaved
    /\ UNCHANGED <<hist, net, build, fvars>>

\* hist_add(H1, H2); saved keeps what the client saw before the call
Add ==
    /\ TotalBoth <= MaxBoth
    /\ hist' = hist_add(hist, hist2)
    /\ lastOp' = [op |-> "add", path |-> "none"]
    /\ saved' = [get |-> GetAll(hist), keys |-> TreeKeys(hist), H2 |-> hist2]
    /\ UNCHANGED <<net, build, hist2, fvars>>

\* hist_sub(H1, H2), H1 holding every key at least as often as H2
Sub ==
    /\ \A k \in Keys : hist_get(hist, k) >= hist_get(hist2, k)
    /\ hist' = hist_sub(hist, hist2)
    /\ lastOp' = [op |-> "sub",
                  path |-> IF lastOp.op = "add" THEN "after_add" ELSE "alone"]
    /\ saved' = IF lastOp.op = "add" THEN saved ELSE NoSaved
    /\ UNCHANGED <<net, build, hist2, fvars>>

MergeNext ==
    \/ \E c \in 1..(MaxBoth - TotalBoth) : \E k \in Keys : InsertH1(k, c)
    \/ \E c \in 1..(MaxBoth - TotalBoth) : \E k \in Keys : InsertH2(k, c)
    \/ Add
    \/ Sub

MergeSpec == MergeInit /\ [][MergeNext]_vars

(***************************************************************************)
(* median_filter_2D_sparse_byrow run by a team of threads.                 *)
(***************************************************************************)
Shapes ==
    {d \in [width : 1..MaxPixels, height : 1..MaxPixels, radius : 0..MaxRadius] :
        d.width * d.height <= MaxPixels}

Threads == 1..nthreads

HistIdle ==
    /\ hist = hist_create
    /\ net = [k \in Keys |-> 0]
    /\ lastOp = [op |-> "create", path |-> "none"]
    /\ saved = NoSaved
    /\ build = "NDEBUG"
    /\ hist2 = hist_create

FilterInit ==
    /\ HistIdle
    /\ dims \in Shapes
    /\ in \in [0..(dims.width * dims.height - 1) -> 0..MaxVal]
    /\ out = [p \in 0..(dims.width * dims.height - 1) |-> -1]
    /\ nthreads \in 1..MaxThreads
    /\ wk = [w \in 1..nthreads |->
                [pc |-> "create", H |-> NULL, hist |-> hist_create,
                 i |-> 0, j |-> 0]]
    /\ todo = 0..(dims.height - 1)
    /\ claimed = [r \in 0..(dims.height - 1) |-> <<>>]
    /\ writers = [p \in 0..(dims.width * dims.height - 1) |-> <<>>]
    /\ access = [b \in 1..MaxThreads |-> {}]
    /\ bpp = 0
    /\ gpu_pc = "idle"
    /\ touched = {}
    /\ d_in = <<>>
    /\ d_out = <<>>

\* the struct Hist blocks the threads hold between hist_create and
\* hist_destroy
LiveHists == {wk[w].H : w \in {v \in Threads : wk[v].pc \in {"for", "emit"}}}

\* thread w has called the histogram functions ops on block b
Touch(b, w, ops) ==
    [access EXCEPT ![b] = @ \cup {[thread |-> w, op |-> o] : o \in ops}]

\* line 102
Create(w) ==
    /\ wk[w].pc = "create"
    /\ LET b == malloc_hist(LiveHists, w)
       IN /\ wk' = [wk EXCEPT ![w].pc = "for", ![w].H = b,
                              ![w].hist = hist_create]
          /\ access' = Touch(b, w, {"create"})
    /\ UNCHANGED <<dims, in, out, nthreads, todo, claimed, writers>>
    /\ UNCHANGED <<hvars, gvars, touched>>

\* lines 105-107: the thread is handed row i, clears and fills its histogram
StartRow(w, i) ==
    /\ wk[w].pc = "for"
    /\ i \in todo
    /\ todo' = omp_for_take(todo, i)
    /\ wk' = [wk EXCEPT ![w].pc = "emit", ![w].i = i, ![w].j = 0,
                        ![w].hist = row_start(wk[w].hist, in, i, dims.radius,
                                              dims.width, dims.height)]
    /\ claimed' = [claimed EXCEPT ![i] = Append(@, w)]
    /\ access' = Touch(wk[w].H, w, {"clear", "insert"})
    /\ UNCHANGED <<dims, in, out, nthreads, writers>>
    /\ UNCHANGED <<hvars, gvars, touched>>

\* lines 111-114: one iteration of the column loop
EmitShift(w) ==
    /\ wk[w].pc = "emit"
    /\ wk[w].j < dims.width - 1
    /\ LET p == IDX(wk[w].i, wk[w].j, dims.height, dims.width)
       IN /\ out' = [out EXCEPT ![p] = hist_median(wk[w].hist)]
          /\ writers' = [writers EXCEPT ![p] = Append(@, w)]
    /\ wk' = [wk EXCEPT ![w].j = @ + 1,
                        ![w].hist = shift_histogram(wk[w].hist, in, wk[w].i,
                                        wk[w].j, dims.radius, dims.width,
                                        dims.height)]
    /\ access' = Touch(wk[w].H, w, {"median", "delete", "insert"})
    /\ UNCHANGED <<dims, in, nthreads, todo, claimed>>
    /\ UNCHANGED <<hvars, gvars, touched>>

\* line 116: the last element of the row
EmitLast(w) ==
    /\ wk[w].pc = "emit"
    /\ ~(wk[w].j < dims.width - 1)
    /\ LET p == IDX(wk[w].i, wk[w].j, dims.height, dims.width)
       IN /\ out' = [out EXCEPT ![p] = hist_median(wk[w].hist)]
          /\ writers' = [writers EXCEPT ![p] = Append(@, w)]
    /\ wk' = [wk EXCEPT ![w].pc = "for"]
    /\ access' = Touch(wk[w].H, w, {"median"})
    /\ UNCHANGED <<dims, in, nthreads, todo, claimed>>
    /\ UNCHANGED <<hvars, gvars, touched>>

\* lines 117-118: no iteration is left for the thread
Finish(w) ==
    /\ wk[w].pc = "for"
    /\ todo = {}
    /\ wk' = [wk EXCEPT ![w].pc = "done", ![w].hist = hist_destroy(wk[w].hist)]
    /\ access' = Touch(wk[w].H, w, {"destroy"})
    /\ UNCHANGED <<dims, in, out, nthreads, todo, claimed, writers>>
    /\ UNCHANGED <<hvars, gvars, touched>>

FilterNext ==
    \/ \E w \in Threads : Create(w)
    \/ \E w \in Threads, i \in 0..(dims.height - 1) : StartRow(w, i)
    \/ \E w \in Threads : EmitShift(w)
    \/ \E w \in Threads : EmitLast(w)
    \/ \E w \in Threads : Finish(w)

FilterSpec == FilterInit /\ [][FilterNext]_vars

(***************************************************************************)
(* The row filter on images that may have no column or no row, with the    *)
(* indices it uses on in and out recorded.                                 *)
(***************************************************************************)
\* non-negative width and height
AnyShapes ==
    {d \in [width : 0..MaxPixels, height : 0..MaxPixels, radius : 0..MaxRadius] :
        d.width * d.height <= MaxPixels}

\* line 57: the indices fill_histogram reads in at
fill_histogram_reads(i, j, radius, width, height) ==
    {[buf |-> "in", idx |-> IDX(i + di, j + dj, height, width)] :
        di \in (0 - radius)..radius, dj \in (0 - radius)..radius}

\* lines 74 and 76: the indices shift_histogram reads in at
shift_histogram_reads(i, j, radius, width, height) ==
    {[buf |-> "in", idx |-> IDX(i + di, j - radius, height, width)] :
        di \in (0 - radius)..radius}
    \cup {[buf |-> "in", idx |-> IDX(i + di, j + radius + 1, height, width)] :
              di \in (0 - radius)..radius}

\* lines 112 and 116: the index median_filter_2D_sparse_byrow writes out at
out_write(i, j, width, height) ==
    {[buf |-> "out", idx |-> IDX(i, j, height, width)]}

\* the accesses acc stay inside the width*height elements of the buffers
InBuffer(acc) ==
    \A a \in acc : a.idx >= 0 /\ a.idx < dims.width * dims.height

\* an access outside the buffer is undefined behaviour: the thread is
\* stopped by the system, or it goes on with memory that is not the image;
\* the thread is followed no further in either case
OutOfBuffer == {"SIGSEGV", "undefined"}

AnyInit ==
    /\ HistIdle
    /\ dims \in AnyShapes
    /\ in \in [0..(dims.width * dims.height - 1) -> 0..MaxVal]
    /\ out = [p \in 0..(dims.width * dims.height - 1) |-> -1]
    /\ nthreads \in 1..MaxThreads
    /\ wk = [w \in 1..nthreads |->
                [pc |-> "create", H |-> NULL, hist |-> hist_create,
                 i |-> 0, j |-> 0]]
    /\ todo = 0..(dims.height - 1)
    /\ claimed = [r \in 0..(dims.height - 1) |-> <<>>]
    /\ writers = [p \in 0..(dims.width * dims.height - 1) |-> <<>>]
    /\ access = [b \in 1..MaxThreads |-> {}]
    /\ bpp = 0
    /\ gpu_pc = "idle"
    /\ d_in = <<>>
    /\ d_out = <<>>
    /\ touched = {}

\* lines 105-107 with the reads of fill_histogram recorded
StartRowAny(w, i) ==
    /\ wk[w].pc = "for"
    /\ i \in todo
    /\ todo' = omp_for_take(todo, i)
    /\ claimed' = [claimed EXCEPT ![i] = Append(@, w)]
    /\ access' = Touch(wk[w].H, w, {"clear", "insert"})
    /\ LET acc == fill_histogram_reads(i, 0, dims.radius, dims.width,
                                       dims.height)
       IN /\ touched' = touched \cup acc
          /\ IF InBuffer(acc)
             THEN wk' = [wk EXCEPT ![w].pc = "emit", ![w].i = i, ![w].j = 0,
                            ![w].hist = row_start(wk[w].hist, in, i,
                                dims.radius, dims.width, dims.height)]
             ELSE \E u \in OutOfBuffer :
                      wk' = [wk EXCEPT ![w].pc = u, ![w].i = i, ![w].j = 0]
    /\ UNCHANGED <<dims, in, out, nthreads, writers>>
    /\ UNCHANGED <<hvars, gvars>>

\* lines 111-114 with the write to out and the reads of shift_histogram
\* recorded
EmitShiftAny(w) ==
    /\ wk[w].pc = "emit"
    /\ wk[w].j < dims.width - 1
    /\ access' = Touch(wk[w].H, w, {"median", "delete", "insert"})
    /\ LET p == IDX(wk[w].i, wk[w].j, dims.height, dims.width)
           acc == out_write(wk[w].i, wk[w].j, dims.width, dims.height)
                  \cup shift_histogram_reads(wk[w].i, wk[w].j, dims.radius,
                                             dims.width, dims.height)
       IN /\ touched' = touched \cup acc
          /\ IF InBuffer(acc)
             THEN /\ out' = [out EXCEPT ![p] = hist_median(wk[w].hist)]
                  /\ writers' = [writers EXCEPT ![p] = Append(@, w)]
                  /\ wk' = [wk EXCEPT ![w].j = @ + 1,
                                ![w].hist = shift_histogram(wk[w].hist, in,
                                    wk[w].i, wk[w].j, dims.radius, dims.width,
                                    dims.height)]
             ELSE /\ \E u \in OutOfBuffer : wk' = [wk EXCEPT ![w].pc = u]
                  /\ UNCHANGED <<out, writers>>
    /\ UNCHANGED <<dims, in, nthreads, todo, claimed>>
    /\ UNCHANGED <<hvars, gvars>>

\* line 116 with the write to out recorded
EmitLastAny(w) ==
    /\ wk[w].pc = "emit"
    /\ ~(wk[w].j < dims.width - 1)
    /\ access' = Touch(wk[w].H, w, {"median"})
    /\ LET p == IDX(wk[w].i, wk[w].j, dims.height, dims.width)
           acc == out_write(wk[w].i, wk[w].j, dims.width, dims.height)
       IN /\ touched' = touched \cup acc
          /\ IF InBuffer(acc)
             THEN /\ out' = [out EXCEPT ![p] = hist_median(wk[w].hist)]
                  /\ writers' = [writers EXCEPT ![p] = Append(@, w)]
                  /\ wk' = [wk EXCEPT ![w].pc = "for"]
             ELSE /\ \E u \in OutOfBuffer : wk' = [wk EXCEPT ![w].pc = u]
                  /\ UNCHANGED <<out, writers>>
    /\ UNCHANGED <<dims, in, nthreads, todo, claimed>>
    /\ UNCHANGED <<hvars, gvars>>

AnyNext ==
    \/ \E w \in Threads : Create(w)
    \/ \E w \in Threads, i \in 0..(dims.height - 1) : StartRowAny(w, i)
    \/ \E w \in Threads : EmitShiftAny(w)
    \/ \E w \in Threads : EmitLastAny(w)
    \/ \E w \in Threads : Finish(w)

AnySpec == AnyInit /\ [][AnyNext]_vars

AllDone == nthreads > 0 /\ \A w \in Threads : wk[w].pc = "done"

\* one thread running the row loop of lines 111-116 on row i from column j
RECURSIVE row_loop(_, _, _, _)
row_loop(T, o, i, j) ==
    LET p == IDX(i, j, dims.height, dims.width)
        o1 == [o EXCEPT ![p] = hist_median(T)]
    IN IF j < dims.width - 1
       THEN row_loop(shift_histogram(T, in, i, j, dims.radius, dims.width,
                                     dims.height), o1, i, j + 1)
       ELSE [T |-> T, out |-> o1]

\* a team of one thread: rows 0..height-1 in order, one histogram
RECURSIVE seq_rows(_, _, _)
seq_rows(T, o, i) ==
    IF i >= dims.height THEN o
    ELSE LET r == row_loop(row_start(T, in, i, dims.radius, dims.width,
                                     dims.height), o, i, 0)
         IN seq_rows(r.T, r.out, i + 1)

RECURSIVE row_hist(_, _, _)
\* the histogram with which lines 112 and 116 call hist_median at column j
\* of row i when the input buffer is buf: filled at column 0 (line 107) and
\* shifted j times (line 113)
row_hist(buf, i, j) ==
    IF j = 0
    THEN row_start(hist_create, buf, i, dims.radius, dims.width, dims.height)
    ELSE shift_histogram(row_hist(buf, i, j - 1), buf, i, j - 1, dims.radius,
                         dims.width, dims.height)

\* the values the filter writes to row i of out for the input buffer buf
filter_row(buf, i) ==
    [j \in 0..(dims.width - 1) |-> hist_median(row_hist(buf, i, j))]

SeqOut ==
    seq_rows(hist_create, [p \in 0..(dims.width * dims.height - 1) |-> -1], 0)

(***************************************************************************)
(* cuda_median_2D_hist_generic: the ghost area and the radix selection.    *)
(***************************************************************************)
HIST_SIZE == 256

RECURSIVE Pow2(_)
Pow2(n) == IF n = 0 THEN 1 ELSE 2 * Pow2(n - 1)

RECURSIVE BitAnd(_, _)
\* a & b on naturals
BitAnd(a, b) ==
    IF a = 0 \/ b = 0 THEN 0
    ELSE (a % 2) * (b % 2) + 2 * BitAnd(a \div 2, b \div 2)

RECURSIVE BitOr(_, _)
\* a | b on naturals
BitOr(a, b) ==
    IF a = 0 THEN b
    ELSE IF b = 0 THEN a
    ELSE (IF a % 2 = 1 \/ b % 2 = 1 THEN 1 ELSE 0)
             + 2 * BitOr(a \div 2, b \div 2)

\* sizeof(data_t) for BPP = b
DATA_SIZE(b) == IF b = 8 THEN 1 ELSE IF b = 16 THEN 2 ELSE 4

\* a data_t is kept as its bytes, least significant first: byte n of v
Byte(v, n) == (v \div Pow2(8 * n)) % 256

\* the bytes of the data_t of size n that holds v
Bytes(v, n) == [m \in 0..(n - 1) |-> Byte(v, m)]

RECURSIVE Value(_, _)
\* the number held in the n low bytes bs
Value(bs, n) == IF n = 0 THEN 0 ELSE bs[n - 1] * Pow2(8 * (n - 1)) + Value(bs, n - 1)

\* (val & mask) == key on a data_t of n bytes
masked_equal(val, mask, key, n) ==
    \A m \in 0..(n - 1) : BitAnd(Byte(val, m), mask[m]) = key[m]

\* the kernel init_ghost_area, all its threads: the image of size
\* (width + 2*radius) * (height + 2*radius) written to the device
init_ghost_area(buf, width, height, radius) ==
    LET ext_width == width + 2 * radius
        ext_height == height + 2 * radius
    IN [q \in 0..(ext_width * ext_height - 1) |->
           LET DST_X == q % ext_width
               DST_Y == q \div ext_width
               SX == DST_X - radius
               SY == DST_Y - radius
               SRC_X == IF SX < 0 THEN 0 ELSE IF SX >= width THEN width - 1
                        ELSE SX
               SRC_Y == IF SY < 0 THEN 0 ELSE IF SY >= height THEN height - 1
                        ELSE SY
           IN buf[SRC_X + SRC_Y * width]]

\* warp_init_hist, all lanes
warp_init_hist == [idx \in 0..(HIST_SIZE - 1) |-> 0]

RECURSIVE kernel_fill(_, _, _, _, _, _, _, _)
\* lines 341-350, the lanes of the warp taken together: atomicAdd makes the
\* result independent of their order.  st is [shift_amount, mask, key,
\* median_pos] of the warp with the size of data_t, i the next window
\* position.
kernel_fill(h, ext, pixelX, pixelY, WINDOW_L, EXT_WIDTH, st, i) ==
    IF i >= WINDOW_L * WINDOW_L THEN h
    ELSE LET win_pX == (i % WINDOW_L) + pixelX
             win_pY == (i \div WINDOW_L) + pixelY
             val == ext[win_pX + (win_pY * EXT_WIDTH)]
             idx == BitAnd(val \div Pow2(st.shift_amount), 255)
             h1 == IF masked_equal(val, st.mask, st.key, st.size)
                   THEN [h EXCEPT ![idx] = @ + 1]
                   ELSE h
         IN kernel_fill(h1, ext, pixelX, pixelY, WINDOW_L, EXT_WIDTH, st,
                        i + 1)

\* the loop of lines 356-358 passes an empty bin with median_pos unchanged
\* (median_pos >= 0 holds): the bin where it is after the empty bins from k on
skip_empty(h, k) ==
    LET busy == {k1 \in k..(HIST_SIZE - 2) : h[k1] # 0}
    IN IF busy # {}
       THEN CHOOSE k1 \in busy : \A k2 \in busy : k1 <= k2
       ELSE HIST_SIZE - 1

RECURSIVE kernel_search_strict(_, _, _)
\* variant: a bin is left only when median_pos is greater than its count
kernel_search_strict(h, k, median_pos) ==
    LET k1 == skip_empty(h, k)
    IN IF k1 < HIST_SIZE - 1 /\ median_pos > h[k1]
       THEN kernel_search_strict(h, k1 + 1, median_pos - h[k1])
       ELSE [k |-> k1, median_pos |-> median_pos]

RECURSIVE kernel_search(_, _, _)
\* lines 356-358: the bin that holds rank median_pos, and the rank inside it
kernel_search(h, k, median_pos) ==
    LET k1 == skip_empty(h, k)
    IN IF k1 < HIST_SIZE - 1 /\ median_pos >= h[k1]
       THEN kernel_search(h, k1 + 1, median_pos - h[k1])
       ELSE [k |-> k1, median_pos |-> median_pos]

RECURSIVE kernel_passes(_, _, _, _, _, _, _, _)
\* the loop over the NPASSES bytes of data_t, most significant first
kernel_passes(ext, pixelX, pixelY, WINDOW_L, EXT_WIDTH, NPASSES, st, pass) ==
    IF pass >= NPASSES THEN st
    ELSE LET h == kernel_fill(warp_init_hist, ext, pixelX, pixelY, WINDOW_L,
                              EXT_WIDTH, st, 0)
             r == kernel_search(h, 0, st.median_pos)
             \* key |= k << shift_amount; mask |= 0xff << shift_amount
             at == st.shift_amount \div 8
             st1 == [shift_amount |-> st.shift_amount - 8,
                     mask |-> [st.mask EXCEPT ![at] = BitOr(@, 255)],
                     key |-> [st.key EXCEPT ![at] = BitOr(@, r.k)],
                     median_pos |-> r.median_pos,
                     size |-> st.size]
         IN kernel_passes(ext, pixelX, pixelY, WINDOW_L, EXT_WIDTH, NPASSES,
                          st1, pass + 1)

\* the value the warp of pixel (pixelX, pixelY) writes to out
median_filter_kernel_generic(ext, pixelX, pixelY, WIDTH, HEIGHT, radius, b) ==
    LET WINDOW_L == (2 * radius) + 1
        WINDOW_SIZE == WINDOW_L * WINDOW_L
        EXT_WIDTH == (2 * radius) + WIDTH
        NPASSES == DATA_SIZE(b)
        st0 == [shift_amount |-> 8 * (NPASSES - 1),
                mask |-> Bytes(0, NPASSES), key |-> Bytes(0, NPASSES),
                median_pos |-> WINDOW_SIZE \div 2, size |-> NPASSES]
    IN Value(kernel_passes(ext, pixelX, pixelY, WINDOW_L, EXT_WIDTH, NPASSES,
                           st0, 0).key, NPASSES)

\* sample values that differ in the lowest, the second and the highest byte
GpuSamples(b) ==
    {v \in {0, 1, 255, 256, 257, 16777216} : b = 32 \/ v < Pow2(b)}

GpuInit ==
    /\ HistIdle
    /\ dims \in Shapes
    /\ bpp \in {8, 16, 32}
    /\ in \in [0..(dims.width * dims.height - 1) -> GpuSamples(bpp)]
    /\ out = <<>>
    /\ nthreads = 0
    /\ wk = <<>>
    /\ todo = {}
    /\ claimed = <<>>
    /\ writers = <<>>
    /\ access = <<>>
    /\ d_in = <<>>
    /\ d_out = <<>>
    /\ gpu_pc = "memcpy"
    /\ touched = {}

\* line 391: the input is copied to the device, into d_out
CopyIn ==
    /\ gpu_pc = "memcpy"
    /\ d_out' = in
    /\ gpu_pc' = "ghost"
    /\ UNCHANGED <<hvars, dims, in, out, nthreads, wk, todo, claimed, writers,
                   access, touched, bpp, d_in>>

\* line 395: the launch of init_ghost_area, from d_out to d_in
LaunchGhost ==
    /\ gpu_pc = "ghost"
    /\ d_in' = init_ghost_area(d_out, dims.width, dims.height, dims.radius)
    /\ gpu_pc' = "kernel"
    /\ UNCHANGED <<hvars, dims, in, out, nthreads, wk, todo, claimed, writers,
                   access, touched, bpp, d_out>>

\* line 400: the launch of median_filter_kernel_generic, one warp per pixel
LaunchKernel ==
    /\ gpu_pc = "kernel"
    /\ d_out' = [p \in 0..(dims.width * dims.height - 1) |->
                    median_filter_kernel_generic(d_in, p % dims.width,
                        p \div dims.width, dims.width, dims.height,
                        dims.radius, bpp)]
    /\ gpu_pc' = "copy"
    /\ UNCHANGED <<hvars, dims, in, out, nthreads, wk, todo, claimed, writers,
                   access, touched, bpp, d_in>>

\* line 402: the result is copied back to the host
CopyBack ==
    /\ gpu_pc = "copy"
    /\ out' = d_out
    /\ gpu_pc' = "done"
    /\ UNCHANGED <<hvars, dims, in, nthreads, wk, todo, claimed, writers,
                   access, touched, bpp, d_in, d_out>>

GpuNext == CopyIn \/ LaunchGhost \/ LaunchKernel \/ CopyBack

GpuSpec == GpuInit /\ [][GpuNext]_vars

(***************************************************************************)
(* Reference definitions for the filter's contract.                        *)
(***************************************************************************)
Clamp(x, lo, hi) == IF x < lo THEN lo ELSE IF x > hi THEN hi ELSE x

Offsets == (0 - dims.radius)..dims.radius

\* per value, how many of the (2*radius+1)^2 window positions hold it
WindowCount(i, j) ==
    [k \in Keys |->
        Cardinality({d \in Offsets \X Offsets :
            in[Clamp(i + d[1], 0, dims.height - 1) * dims.width
               + Clamp(j + d[2], 0, dims.width - 1)] = k})]

WindowMedian(i, j) ==
    RankValue(WindowCount(i, j),
              ((2 * dims.radius + 1) * (2 * dims.radius + 1)) \div 2)

(***************************************************************************)
(* Properties.                                                             *)
(***************************************************************************)

\* C1: on every reachable non-empty histogram hist_median returns the value
\* at 0-indexed position totalCount \div 2 of the sorted sequence in which
\* each key is repeated hist_get(key) times (the upper middle for an even
\* total).
C1_MedianIsRank ==
    LET g == GetAll(hist)
    IN Total(g) > 0 => hist_median(hist) = RankValue(g, Total(g) \div 2)

\* an even total whose two middle values differ, reached by a delete
C1_Witness ==
    LET g == GetAll(hist)
    IN /\ lastOp.op = "delete"
       /\ Total(g) = 4
       /\ Cardinality(TreeKeys(hist)) >= 3
       /\ RankValue(g, 1) # RankValue(g, 2)
       /\ hist_median(hist) = RankValue(g, 2)

\* C2: after every insert and delete, every node n of the tree has
\* n.counts = n.count + counts(n.left) + counts(n.right), a missing child
\* contributing 0.
C2_SubtreeCounts ==
    \A n \in TreeNodes(hist) :
        hist.node[n].counts = hist.node[n].count
            + CountsOf(hist, hist.node[n].left)
            + CountsOf(hist, hist.node[n].right)

\* a two-child removal whose successor was not the direct right child, in
\* a tree of five nodes
C2_Witness ==
    /\ lastOp.op = "delete"
    /\ lastOp.path = "succ_far"
    /\ Cardinality(TreeNodes(hist)) = MaxKey

\* C5: for every key k, hist_get(k) is the sum of the multiplicities
\* inserted for k minus the sum of those deleted, is never negative, and is
\* 0 when no node of the tree holds k.
C5_GetIsNet ==
    \A k \in Keys :
        /\ hist_get(hist, k) = net[k]
        /\ hist_get(hist, k) >= 0
        /\ (k \notin TreeKeys(hist) => hist_get(hist, k) = 0)

\* a partial delete: the key keeps some of its occurrences, another key is
\* absent
C5_Witness ==
    /\ lastOp.op = "delete"
    /\ lastOp.path = "decrement"
    /\ \E k \in Keys : net[k] = 1 /\ hist_get(hist, k) = 1
    /\ \E k \in Keys : k \notin TreeKeys(hist)
    /\ Cardinality(TreeNodes(hist)) >= 2

\* C6: for every node n, every key in n's left subtree is <= n.key and every
\* key in n's right subtree is > n.key (whole subtrees, not only children).
C6_BSTOrder ==
    \A n \in TreeNodes(hist) :
        /\ \A m \in Subtree(hist, hist.node[n].left) :
               hist.node[m].key <= hist.node[n].key
        /\ \A m \in Subtree(hist, hist.node[n].right) :
               hist.node[m].key > hist.node[n].key

\* a two-child removal has promoted the in-order successor, and the
\* promoted root still has both subtrees
C6_Witness ==
    /\ lastOp.op = "delete"
    /\ lastOp.path \in {"succ_near", "succ_far"}
    /\ hist.root # NULL
    /\ hist.node[hist.root].left # NULL
    /\ hist.node[hist.root].right # NULL

\* C7: every node present in the tree has count > 0.
C7_CountPositive ==
    \A n \in TreeNodes(hist) : hist.node[n].count > 0

\* a delete has brought a count to 0 and removed the node; others remain
C7_Witness ==
    /\ lastOp.op = "delete"
    /\ lastOp.path \in {"no_left", "no_right", "succ_near", "succ_far"}
    /\ TreeNodes(hist) # {}

\* C8: hist_insert(k, c) immediately followed by hist_delete(k, c) restores
\* hist_get for every key, hist_is_empty, and hist_median when non-empty.
C8_RoundTrip ==
    lastOp.op = "insert_delete" => Observables(hist) = saved

\* the round trip created a node for an absent key and removed it again
C8_Witness ==
    /\ lastOp.op = "insert_delete"
    /\ lastOp.path = "new"
    /\ Cardinality(TreeNodes(hist)) >= 2
    /\ ~hist_is_empty(hist)

\* C3: when median_filter_2D_sparse_byrow has returned, every out[i*width+j]
\* is the rank-((2*radius+1)^2 \div 2) value of the multiset of the window
\* samples taken with border replication.
C3_OutIsWindowMedian ==
    AllDone =>
        \A i \in 0..(dims.height - 1), j \in 0..(dims.width - 1) :
            out[i * dims.width + j] = WindowMedian(i, j)

\* a 2x2 image with radius 1 whose output is not constant
C3_Witness ==
    /\ AllDone
    /\ dims = [width |-> 2, height |-> 2, radius |-> 1]
    /\ \E p, q \in DOMAIN out : out[p] # out[q]

\* C4: at every column at which the row loop calls hist_median, the
\* incrementally maintained histogram has for every key the same hist_get
\* as a fresh histogram filled for the window centred there, and the same
\* median.
C4_IncrementalIsFresh ==
    \A w \in Threads :
        wk[w].pc = "emit" =>
            LET fresh == fill_histogram(hist_create, in, wk[w].i, wk[w].j,
                                        dims.radius, dims.width, dims.height)
            IN /\ GetAll(wk[w].hist) = GetAll(fresh)
               /\ hist_median(wk[w].hist) = hist_median(fresh)

\* a thread is about to emit column 2 after two shifts with radius 1, and
\* the window changed on the way
C4_Witness ==
    \E w \in Threads :
        /\ wk[w].pc = "emit"
        /\ wk[w].j = 2
        /\ dims.radius = 1
        /\ GetAll(wk[w].hist) #
               GetAll(fill_histogram(hist_create, in, wk[w].i, 0, dims.radius,
                                     dims.width, dims.height))

\* C9: the final output buffer is the one a single thread produces taking
\* the rows in order, whatever the team size, the assignment of rows to
\* threads, the order of a thread's rows and the interleaving.
C9_ScheduleIndependent ==
    AllDone => out = SeqOut

\* two threads: one took the rows 1 and 0 in that order, or each took one
C9_Witness ==
    /\ AllDone
    /\ nthreads = 2
    /\ dims.height >= 2
    /\ claimed[0] # claimed[1]
    /\ \E p, q \in DOMAIN out : out[p] # out[q]

\* C10: each row is handed to exactly one thread, a thread writes only to
\* output positions of rows handed to it, no position is written twice, and
\* when all threads have finished every position has been written once.
C10_DisjointWrites ==
    /\ \A r \in DOMAIN claimed : Len(claimed[r]) <= 1
    /\ \A p \in DOMAIN writers :
           /\ Len(writers[p]) <= 1
           /\ \A t \in 1..Len(writers[p]) :
                  \E u \in 1..Len(claimed[p \div dims.width]) :
                      claimed[p \div dims.width][u] = writers[p][t]
    /\ AllDone =>
           /\ \A r \in DOMAIN claimed : Len(claimed[r]) = 1
           /\ \A p \in DOMAIN writers : Len(writers[p]) = 1

\* both threads of a team of two have written part of the output
C10_Witness ==
    /\ AllDone
    /\ nthreads = 2
    /\ \E p, q \in DOMAIN writers :
           /\ Len(writers[p]) = 1 /\ Len(writers[q]) = 1
           /\ writers[p][1] # writers[q][1]

\* C11: each histogram instance is created, cleared, inserted into, deleted
\* from, queried and destroyed by one and the same thread: no instance is
\* ever used by two different threads.
C11_OneThreadPerHist ==
    \A b \in DOMAIN access :
        \A a1, a2 \in access[b] : a1.thread = a2.thread

\* a team of two has finished, and each thread has created, cleared,
\* filled, shifted, queried and destroyed a histogram of its own
C11_Witness ==
    /\ AllDone
    /\ nthreads = 2
    /\ wk[1].H # wk[2].H
    /\ \A w \in Threads :
           access[wk[w].H] =
               {[thread |-> w, op |-> o] :
                   o \in {"create", "clear", "insert", "delete", "median",
                          "destroy"}}

\* C12: every hist_delete(val_left, 1) issued by shift_histogram finds
\* val_left present with count >= 1 at the moment of the call, the deletes
\* and inserts done for smaller di included: neither the absent-key return
\* nor the count >= 0 assertion failure of hist_delete is reached.
C12_ShiftDeletesFound ==
    \A w \in Threads :
        (wk[w].pc = "emit" /\ wk[w].j < dims.width - 1) =>
            shift_deletes_found(wk[w].hist, in, wk[w].i, wk[w].j, dims.radius,
                                dims.width, dims.height, 0 - dims.radius)

\* a second shift of a row at the largest radius: the column that leaves
\* holds a value its neighbour does not, so the deletes of the shift take
\* the count of that value down to 0
C12_Witness ==
    \E w \in Threads :
        /\ wk[w].pc = "emit"
        /\ wk[w].j = 1
        /\ wk[w].j < dims.width - 1
        /\ dims.radius = MaxRadius
        /\ in[IDX(wk[w].i, 0, dims.height, dims.width)]
               # in[IDX(wk[w].i, 1, dims.height, dims.width)]
        /\ hist_get(shift_histogram(wk[w].hist, in, wk[w].i, wk[w].j,
                                    dims.radius, dims.width, dims.height),
                    in[IDX(wk[w].i, 0, dims.height, dims.width)]) = 0

\* the outcomes in which a call reports a broken precondition
Signalled == {"assert(c>=0)", "assert(n->count >= 0)", "assert(n != NULL)"}

\* C13: for every reachable histogram, every key k and every c with
\* c > hist_get(k), the case of an absent k with c > 0 included,
\* hist_delete(k, c) signals a precondition violation instead of
\* completing normally.
C13_DeleteTooManySignals ==
    lastOp.op = "delete_over" => lastOp.path \in Signalled

\* C14: hist_median called on an empty histogram (just created, just
\* cleared, or emptied by deletes) signals an error and does not return a
\* value.
C14_MedianOnEmptySignals ==
    (lastOp.op \in {"median", "median_empty"} /\ hist_is_empty(hist)) =>
        lastOp.path \in Signalled

\* C15: hist_insert(k, c) and hist_delete(k, c) with c < 0 signal a
\* violation for every histogram state and every key, present or absent,
\* and the violation is raised before any count or counts field is
\* modified.
C15_NegativeSignalsFirst ==
    [][lastOp'.op \in {"insert_neg", "delete_neg"} =>
           (lastOp'.path \in Signalled /\ hist' = hist)]_vars

\* C16: hist_insert(k, 0) is a no-op for every histogram state and every
\* key: the tree (nodes, counts, shape) is unchanged and no node is created
\* for an absent k; hist_delete(k, 0) likewise leaves the tree unchanged
\* whether k is present or absent.
C16_ZeroIsNoOp ==
    \A k \in Keys :
        /\ hist_insert(hist, k, 0) = hist
        /\ hist_delete(hist, k, 0) = hist

\* hist_insert(k, 0) has just been called on a tree of several nodes that
\* lacks some key, and hist_delete(k, 0) there meets present and absent keys
C16_Witness ==
    /\ lastOp.op = "insert"
    /\ lastOp.path = "noop"
    /\ Cardinality(TreeNodes(hist)) >= 3
    /\ \E k \in Keys : k \notin TreeKeys(hist)
    /\ \E k \in TreeKeys(hist) :
           hist.node[hist_lookup(hist, k)].parent # NULL

\* C17: after hist_clear on any reachable histogram, hist_is_empty is true
\* and hist_get(k) = 0 for every key k, and the histogram is in the state
\* hist_create returns (no root, every node released), so that any later
\* sequence of inserts and deletes behaves as on a fresh histogram.
C17_ClearIsFresh ==
    lastOp.op = "clear" =>
        /\ hist_is_empty(hist)
        /\ \A k \in Keys : hist_get(hist, k) = 0
        /\ hist.root = NULL
        /\ FreeIds(hist) = NodeIds
        /\ hist = hist_create

\* hist_clear has just emptied a histogram that held nodes
C17_Witness ==
    /\ lastOp.op = "clear"
    /\ lastOp.path = "nonempty"
    /\ hist_is_empty(hist)

\* C18: in every state reached by valid inserts, deletes and clears,
\* hist_is_empty is true if and only if hist_get(k) = 0 for every key k;
\* deleting the last remaining occurrence makes it true and the next insert
\* with c > 0 makes it false.
C18_EmptyIffNoKey ==
    hist_is_empty(hist) <=> (\A k \in Keys : hist_get(hist, k) = 0)

\* a delete has removed the last remaining occurrence
C18_Witness ==
    /\ lastOp.op = "delete"
    /\ lastOp.path \in {"no_left", "no_right"}
    /\ hist.root = NULL
    /\ hist_is_empty(hist)

\* the subtree-count invariant on the histogram T
SubtreeCountsHold(T) ==
    \A n \in TreeNodes(T) :
        T.node[n].counts = T.node[n].count + CountsOf(T, T.node[n].left)
                              + CountsOf(T, T.node[n].right)

\* the ordering invariant on the histogram T
BSTOrderHolds(T) ==
    \A n \in TreeNodes(T) :
        /\ \A m \in Subtree(T, T.node[n].left) : T.node[m].key <= T.node[n].key
        /\ \A m \in Subtree(T, T.node[n].right) : T.node[m].key > T.node[n].key

\* C19: after hist_add(H1, H2) on two distinct histograms every key k has
\* hist_get(H1, k) equal to its previous value plus hist_get(H2, k), H2 is
\* unchanged, and H1 still satisfies the subtree-count and ordering
\* invariants.
C19_AddSums ==
    lastOp.op = "add" =>
        /\ \A k \in Keys :
               hist_get(hist, k) = saved.get[k] + hist_get(hist2, k)
        /\ hist2 = saved.H2
        /\ SubtreeCountsHold(hist)
        /\ BSTOrderHolds(hist)

\* the root of H2 has a right child; one of the keys of H2 was in H1
\* already, another was not, and H1 had a key H2 lacks
C19_Witness ==
    /\ lastOp.op = "add"
    /\ hist2.root # NULL
    /\ hist2.node[hist2.root].right # NULL
    /\ \E k \in TreeKeys(hist2) : k \in saved.keys
    /\ \E k \in TreeKeys(hist2) : k \notin saved.keys
    /\ \E k \in saved.keys : k \notin TreeKeys(hist2)

\* C20: hist_add(H1, H2) followed by hist_sub(H1, H2) restores
\* hist_get(H1, k) for every key k to its value before the add, keys that
\* were absent from H1 are absent again, and H2 is unchanged.
C20_AddSubRestores ==
    (lastOp.op = "sub" /\ lastOp.path = "after_add") =>
        /\ GetAll(hist) = saved.get
        /\ TreeKeys(hist) = saved.keys
        /\ hist2 = saved.H2

\* H2 holds a key twice and a key H1 never had, and H1 is back to the one
\* key it shares with H2
C20_Witness ==
    /\ lastOp.op = "sub"
    /\ lastOp.path = "after_add"
    /\ \E k \in Keys : hist_get(hist2, k) >= 2
    /\ \E k \in TreeKeys(hist2) : k \notin TreeKeys(hist)
    /\ \E k \in TreeKeys(hist2) : k \in TreeKeys(hist)

\* the input buffers of the size of in
Buffers == [DOMAIN in -> 0..MaxVal]

\* the buffers a and b hold the same samples in every row of rows
SameRows(a, b, rows) ==
    \A r \in rows, j \in 0..(dims.width - 1) :
        a[r * dims.width + j] = b[r * dims.width + j]

\* the rows the window of a pixel of row i reads, with border replication
WindowRows(i) == {Clamp(i + d, 0, dims.height - 1) : d \in Offsets}

\* C21: each row's output depends only on that row's input samples and the
\* radius: for any two input buffers of the same width and height that
\* agree on every sample of row i, and the same radius, the filter produces
\* identical values in output row i.
C21_RowOnly ==
    AllDone =>
        \A i \in 0..(dims.height - 1) :
            \A buf2 \in Buffers :
                SameRows(in, buf2, {i}) =>
                    \A j \in 0..(dims.width - 1) :
                        filter_row(buf2, i)[j] = out[i * dims.width + j]

\* C21 as amended: output row i depends only on the radius and on the input
\* rows i-radius..i+radius (clamped to the image): two input buffers that
\* agree on those rows give identical values in output row i.
C21_WindowRowsOnly ==
    AllDone =>
        \A i \in 0..(dims.height - 1) :
            \A buf2 \in Buffers :
                SameRows(in, buf2, WindowRows(i)) =>
                    \A j \in 0..(dims.width - 1) :
                        filter_row(buf2, i)[j] = out[i * dims.width + j]

\* radius 1 on an image of three rows: another buffer differs from in only
\* in a row outside the window of row i
C21_Witness ==
    /\ AllDone
    /\ dims.radius = 1
    /\ \E i \in 0..(dims.height - 1) :
           \E buf2 \in Buffers :
               /\ buf2 # in
               /\ SameRows(in, buf2, WindowRows(i))
               /\ filter_row(buf2, i)[0] = out[i * dims.width]

\* the window is wider or taller than the image
WindowExceedsImage ==
    2 * dims.radius + 1 >
        (IF dims.width < dims.height THEN dims.width ELSE dims.height)

\* C22: for every width >= 1, height >= 1 and radius >= 0 with
\* 2*radius+1 > min(width, height), a 1x1 image included, the filter
\* completes every row without a histogram precondition violation (no
\* median of an empty histogram, no delete of a missing occurrence) and
\* each output is the median of the window with out-of-bounds positions
\* replaced by the nearest edge sample.
C22_LargeRadius ==
    WindowExceedsImage =>
        /\ \A w \in Threads :
               wk[w].pc = "emit" =>
                   /\ ~hist_is_empty(wk[w].hist)
                   /\ wk[w].j < dims.width - 1 =>
                          shift_deletes_found(wk[w].hist, in, wk[w].i, wk[w].j,
                                              dims.radius, dims.width,
                                              dims.height, 0 - dims.radius)
        /\ \A p \in DOMAIN out :
               out[p] # -1 =>
                   out[p] = WindowMedian(p \div dims.width, p % dims.width)
        /\ AllDone => \A p \in DOMAIN out : out[p] # -1

\* a single row of at least three samples filtered with the largest
\* radius: the window leaves the image above, below and at both ends, and
\* the output is not constant
C22_Witness ==
    /\ AllDone
    /\ WindowExceedsImage
    /\ dims.radius = MaxRadius
    /\ dims.height = 1
    /\ dims.width >= 3
    /\ \E p, q \in DOMAIN out : out[p] # out[q]

\* C23: for every input buffer, width >= 1, height >= 1 and radius >= 0 the
\* GPU algorithm (init_ghost_area, then the byte-wise radix selection of
\* rank WINDOW_SIZE/2, most significant byte first) gives every pixel the
\* value median_filter_2D_sparse_byrow gives it.
C23_GpuEqualsCpu ==
    /\ gpu_pc \in {"copy", "done"} =>
          \A i \in 0..(dims.height - 1), j \in 0..(dims.width - 1) :
              d_out[i * dims.width + j] = filter_row(in, i)[j]
    /\ gpu_pc = "done" => out = d_out

\* 32-bit samples that differ in their highest and in their lowest byte,
\* radius 1, and an output that is not constant
C23_Witness ==
    /\ gpu_pc = "done"
    /\ bpp = 32
    /\ dims.radius = 1
    /\ \E p, q \in DOMAIN in : in[p] >= 16777216 /\ in[q] = 257
    /\ \E p \in DOMAIN in : in[p] = 256
    /\ \E p, q \in DOMAIN out : out[p] # out[q]

\* the link of T that holds node n of T: as read in the heap U
SlotOf(T, U, n) ==
    LET p == T.node[n].parent
    IN IF p = NULL THEN U.root
       ELSE IF T.node[p].left = n THEN U.node[p].left
       ELSE U.node[p].right

\* the node of T with the smallest key greater than the key of n
SuccessorOf(T, n) ==
    CHOOSE s \in TreeNodes(T) :
        /\ T.node[s].key > T.node[n].key
        /\ \A m \in TreeNodes(T) :
               T.node[m].key > T.node[n].key => T.node[s].key <= T.node[m].key

KeyCounts(T, S) == {<<T.node[m].key, T.node[m].count>> : m \in S}

\* U is T with node n removed as C24 describes
RemovedAsDescribed(T, U, n) ==
    LET nd == T.node[n]
    IN /\ IF nd.left = NULL \/ nd.right = NULL
          THEN LET child == IF nd.left # NULL THEN nd.left ELSE nd.right
               IN /\ SlotOf(T, U, n) = child
                  /\ child # NULL => U.node[child].parent = nd.parent
          ELSE LET s == SuccessorOf(T, n)
               IN /\ s = hist_minimum(T, nd.right)
                  /\ SlotOf(T, U, n) = s
                  /\ U.node[s].parent = nd.parent
                  /\ U.node[s].left = nd.left
                  /\ Subtree(U, nd.left) = Subtree(T, nd.left)
                  /\ IF s = nd.right
                     THEN /\ U.node[s].right = T.node[s].right
                          /\ Subtree(U, U.node[s].right)
                                 = Subtree(T, nd.right) \ {s}
                     ELSE /\ SlotOf(T, U, s) = T.node[s].right
                          /\ U.node[s].right = nd.right
                          /\ Subtree(U, nd.right) = Subtree(T, nd.right) \ {s}
       /\ TreeNodes(U) = TreeNodes(T) \ {n}
       /\ KeyCounts(U, TreeNodes(U)) = KeyCounts(T, TreeNodes(T) \ {n})
       /\ \A m \in TreeNodes(U) :
              /\ U.node[m].key = T.node[m].key
              /\ U.node[m].count = T.node[m].count

RemovalPaths == {"no_left", "no_right", "succ_near", "succ_far"}

\* C24: when hist_delete removes a node n whose count reached 0, a node
\* with at most one child is replaced in its slot by that child (or by
\* nothing); a node with two children is replaced by the node of the
\* smallest greater key, which takes n's left subtree and the rest of n's
\* right subtree, its own right child moving to its old slot when it was not
\* n's direct right child; key and count of every other node are unchanged.
C24_RemovalShape ==
    [][\A k \in Keys :
          (lastOp'.op = "delete" /\ lastOp'.path \in RemovalPaths
              /\ net'[k] # net[k])
          => RemovedAsDescribed(hist, hist', hist_lookup(hist, k))]_vars

\* a two-child node was removed whose successor was deeper than its right
\* child, and the tree still has a left and a right part under the successor
C24_Witness ==
    /\ lastOp.op = "delete"
    /\ lastOp.path = "succ_far"
    /\ hist.root # NULL
    /\ hist.node[hist.root].left # NULL
    /\ hist.node[hist.root].right # NULL
    /\ Cardinality(TreeNodes(hist)) = MaxNodes - 1

\* counts == count + counts(left) + counts(right) fails at node m
StaleCounts(T, m) ==
    T.node[m].counts # T.node[m].count
        + (IF T.node[m].left # NULL THEN T.node[T.node[m].left].counts ELSE 0)
        + (IF T.node[m].right # NULL THEN T.node[T.node[m].right].counts ELSE 0)

RECURSIVE PathToRoot(_, _)
\* n and its ancestors
PathToRoot(T, n) ==
    IF n = NULL THEN {} ELSE {n} \cup PathToRoot(T, T.node[n].parent)

\* hist_delete(k, c) from T: the stale nodes after the mutation are on the
\* path of the repair, and where the repair stops early the ancestors hold
RepairSuffices(T, k, c) ==
    LET m == hist_delete_mutation(T, k, c)
        r == update_counts_to_root_to(m.T, m.update_from)
    IN /\ {x \in TreeNodes(m.T) : StaleCounts(m.T, x)}
              \subseteq PathToRoot(m.T, m.update_from)
       /\ r.stop # NULL =>
              \A a \in PathToRoot(r.T, r.T.node[r.stop].parent) :
                  ~StaleCounts(r.T, a)
       /\ r.T = hist_delete(T, k, c)

\* C25: in every branch of hist_delete every node whose counts is stale
\* right after the mutation lies on the path from the node passed to
\* update_counts_to_root up to the root, and when update_counts_to_root
\* stops at a node whose counts did not change, every proper ancestor of
\* that node satisfies counts == count + counts(left) + counts(right).
C25_RepairSufficient ==
    \A k \in TreeKeys(hist) : \A c \in 0..hist_get(hist, k) :
        RepairSuffices(hist, k, c)

\* a tree left by the removal of a two-child node whose successor was not
\* its right child, from which a further delete takes the same branch and
\* hist_delete(k, 0) stops the repair below the root
C25_Witness ==
    /\ lastOp.op = "delete"
    /\ lastOp.path = "succ_far"
    /\ \E k \in TreeKeys(hist) :
           DeleteCase(hist, k, hist_get(hist, k)) = "succ_far"
    /\ \E k \in TreeKeys(hist) :
           LET m == hist_delete_mutation(hist, k, 0)
               r == update_counts_to_root_to(m.T, m.update_from)
           IN r.stop # NULL /\ r.stop # hist.root

Allocated(T) == {n \in NodeIds : T.node[n].alloc}

RECURSIVE Visits(_, _, _)
\* the number of paths of fewer than d child links that start at n
Visits(T, n, d) ==
    IF n = NULL \/ d = 0 THEN 0
    ELSE 1 + Visits(T, T.node[n].left, d - 1)
           + Visits(T, T.node[n].right, d - 1)

RECURSIVE ReachWithin(_, _, _)
\* the nodes at the end of those paths
ReachWithin(T, n, d) ==
    IF n = NULL \/ d = 0 THEN {}
    ELSE {n} \cup ReachWithin(T, T.node[n].left, d - 1)
             \cup ReachWithin(T, T.node[n].right, d - 1)

\* C26: after every hist_insert, hist_delete and hist_clear the root's
\* parent is null, every child c of a node n has c.parent == n, and every
\* node is reachable from the root by exactly one path of child links (no
\* node has two parents, no cycle).
C26_ParentLinks ==
    /\ hist.root # NULL => hist.node[hist.root].parent = NULL
    /\ \A n \in Allocated(hist) :
           /\ hist.node[n].left # NULL =>
                  hist.node[hist.node[n].left].parent = n
           /\ hist.node[n].right # NULL =>
                  hist.node[hist.node[n].right].parent = n
    /\ ReachWithin(hist, hist.root, MaxNodes + 1) = Allocated(hist)
    /\ Visits(hist, hist.root, MaxNodes + 1) = Cardinality(Allocated(hist))

\* a removal through hist_transplant left a tree whose root has two
\* children and a grandchild
C26_Witness ==
    /\ lastOp.op = "delete"
    /\ lastOp.path \in {"succ_far", "succ_near"}
    /\ hist.root # NULL
    /\ hist.node[hist.root].left # NULL
    /\ hist.node[hist.root].right # NULL
    /\ Cardinality(Allocated(hist)) >= 4

\* C27: hist_insert(k, c) and hist_delete(k, c) leave hist_get(k2)
\* unchanged for every key k2 other than k, the removal of a two-child node
\* whose successor is relocated included.
C27_Frame ==
    [][\A k \in Keys :
          (lastOp'.op \in {"insert", "delete"} /\ net'[k] # net[k])
          => \A k2 \in Keys \ {k} : hist_get(hist', k2) = hist_get(hist, k2)]_vars

\* a two-child node was removed and its relocated successor is one of at
\* least three keys left, one of them with more than one occurrence
C27_Witness ==
    /\ lastOp.op = "delete"
    /\ lastOp.path = "succ_far"
    /\ Cardinality(TreeKeys(hist)) >= 3
    /\ \E k \in Keys : hist_get(hist, k) >= 2

\* C28: no two nodes of the tree hold the same key; the ordering is strict
\* (every key in a left subtree is smaller, every key in a right subtree is
\* greater than the node's key) and hist_lookup finds the one node of a
\* present key.
C28_UniqueKeys ==
    /\ \A m, n \in Allocated(hist) :
           m # n => hist.node[m].key # hist.node[n].key
    /\ \A n \in Allocated(hist) :
           /\ \A m \in ReachWithin(hist, hist.node[n].left, MaxNodes) :
                  hist.node[m].key < hist.node[n].key
           /\ \A m \in ReachWithin(hist, hist.node[n].right, MaxNodes) :
                  hist.node[m].key > hist.node[n].key
           /\ hist_lookup(hist, hist.node[n].key) = n

\* hist_insert met a key that was present, in a tree of at least three
\* nodes where it is not the root
C28_Witness ==
    /\ lastOp.op = "insert"
    /\ lastOp.path = "existing"
    /\ Cardinality(Allocated(hist)) >= 3
    /\ \E n \in Allocated(hist) :
           hist.node[n].count >= 2 /\ n # hist.root

RECURSIVE Height(_, _)
\* the number of child links on the longest path down from n
Height(T, n) ==
    IF n = NULL THEN -1
    ELSE LET l == Height(T, T.node[n].left)
             r == Height(T, T.node[n].right)
         IN 1 + (IF l > r THEN l ELSE r)

\* C29: on every reachable non-empty histogram the rank descent of
\* hist_median has at every iteration a non-null node whose counts is
\* greater than the remaining target, takes at most height+1 iterations and
\* returns the key of a node of the tree.
C29_MedianDescent ==
    hist.root # NULL =>
        LET w == hist_median_walk(hist, hist.root,
                                  median_target(hist.node[hist.root].counts))
        IN /\ \A t \in 1..Len(w) :
                  /\ w[t].n # NULL
                  /\ hist.node[w[t].n].counts > w[t].target
           /\ Len(w) <= Height(hist, hist.root) + 1
           /\ w[Len(w)].n \in TreeNodes(hist)
           /\ hist_median(hist) = hist.node[w[Len(w)].n].key
           /\ hist_median(hist) \in TreeKeys(hist)

\* the descent goes left and then right before it returns
C29_Witness ==
    /\ hist.root # NULL
    /\ LET w == hist_median_walk(hist, hist.root,
                                 median_target(hist.node[hist.root].counts))
       IN /\ Len(w) = 3
          /\ w[2].n = hist.node[hist.root].left
          /\ w[3].n = hist.node[w[2].n].right
          /\ w[3].target < w[1].target

WindowSize == (2 * dims.radius + 1) * (2 * dims.radius + 1)

\* C30: at every call of hist_median in the row filter the worker's
\* histogram holds (2*radius+1)^2 occurrences in total (the counts of its
\* root), so it is not empty, and they are the occurrences of the window of
\* the current pixel: none of a row processed before remains.
C30_WindowTotal ==
    \A w \in Threads :
        wk[w].pc = "emit" =>
            /\ wk[w].hist.root # NULL
            /\ wk[w].hist.node[wk[w].hist.root].counts = WindowSize
            /\ Total(GetAll(wk[w].hist)) = WindowSize
            /\ GetAll(wk[w].hist) = WindowCount(wk[w].i, wk[w].j)

\* a thread is about to call hist_median in a row after it has processed
\* another row whose samples differ, with a window of nine samples
C30_Witness ==
    \E w \in Threads :
        /\ wk[w].pc = "emit"
        /\ dims.radius = 1
        /\ \E r \in DOMAIN claimed :
               /\ r # wk[w].i
               /\ \E t \in DOMAIN claimed[r] : claimed[r][t] = w
               /\ \E c \in 0..(dims.width - 1) :
                      in[r * dims.width + c] # in[wk[w].i * dims.width + c]

\* C31: for all non-negative width and height and every radius >= 0, every
\* index computed by IDX and used by median_filter_2D_sparse_byrow,
\* fill_histogram and shift_histogram to read in or write out lies in the
\* range 0 .. width*height-1.
C31_IndexInRange ==
    \A a \in touched : a.idx \in 0..(dims.width * dims.height - 1)

\* every pointer of T names an allocated block or is null
NoDangling(T) ==
    /\ T.root \in Allocated(T) \cup {NULL}
    /\ \A n \in Allocated(T) :
           /\ T.node[n].left \in Allocated(T) \cup {NULL}
           /\ T.node[n].right \in Allocated(T) \cup {NULL}
           /\ T.node[n].parent \in Allocated(T) \cup {NULL}

\* C32: after every hist_insert and hist_delete the allocated nodes are
\* the nodes reachable from the root and no root, left, right or parent
\* pointer names a freed node; hist_clear frees every node exactly once and
\* leaves the root null.
C32_NoLeakNoDangling ==
    /\ Allocated(hist) = ReachWithin(hist, hist.root, MaxNodes + 1)
    /\ NoDangling(hist)
    /\ LET f == hist_clear_frees(hist, hist.root)
       IN /\ \A s, t \in 1..Len(f) : s # t => f[s] # f[t]
          /\ {f[t] : t \in 1..Len(f)} = Allocated(hist)
    /\ hist_clear(hist).root = NULL
    /\ Allocated(hist_clear(hist)) = {}
    /\ lastOp.op = "clear" => (hist.root = NULL /\ Allocated(hist) = {})

\* hist_delete has freed a two-child node of a tree that keeps at least
\* three nodes for hist_clear to free
C32_Witness ==
    /\ lastOp.op = "delete"
    /\ lastOp.path \in {"succ_near", "succ_far"}
    /\ Len(hist_clear_frees(hist, hist.root)) >= 3
    /\ FreeIds(hist) # {}

=============================================================================
